---- MODULE Spec2Model ----
(***************************************************************************)
(* declarative-rules: the Rules builder (setRule, setDefault), the         *)
(* first-match evaluation baseApplyRules, and its memoized form            *)
(* applyRules = memoize(baseApplyRules), from src/src/index.ts.            *)
(*                                                                         *)
(* The library is synchronous and single-threaded: every call runs to      *)
(* completion, so each call is one atomic action.  `last` records the      *)
(* call that was just made and what the caller observed.                   *)
(***************************************************************************)
EXTENDS Integers, Sequences, FiniteSets, TLC

(***************************************************************************)
(* Bounds                                                                  *)
(***************************************************************************)
\* Number of library calls (builder calls and evaluations) in one run.
MaxOps == 4

(***************************************************************************)
(* Values of the program                                                   *)
(***************************************************************************)
\* The JavaScript value null (initial value of Rules._default).
JsNull == "null"
\* Placeholder of a record field that carries no value.
NoValue == "-"
\* Values stored in rules (type parameter T); none of them is null.
Values == {"large", "positive"}
\* What setDefault may be given: a T, where T may admit null.
DefaultArgs == Values \cup {JsNull}
\* Instances of the Rules class (object identities).
RuleSets == {"r1", "r2"}

\* Numbers of a context { x: number }: finite numbers, NaN and Infinity.
NaN == [t |-> "NaN", n |-> 0]
Infinity == [t |-> "Infinity", n |-> 0]
Finite(n) == [t |-> "finite", n |-> n]
Contexts == {[x |-> Finite(5)], [x |-> NaN], [x |-> Infinity]}

\* JavaScript's  a > b  for a number a and a finite integer b.
GreaterThan(a, b) ==
    CASE a.t = "NaN" -> FALSE
      [] a.t = "Infinity" -> TRUE
      [] OTHER -> a.n > b

\* JSON.stringify of a context { x: number }: NaN and Infinity are
\* serialized as null, finite numbers as their decimal digits.
JSONstringify(args) ==
    "{\"x\":" \o (IF args.x.t = "finite" THEN ToString(args.x.n) ELSE "null") \o "}"

Keys == {JSONstringify(c) : c \in Contexts}

\* Predicate functions (identities).  gt10 is the pure predicate
\* ({ x }) => x > 10 of the tests; mock is a jest.fn predicate whose
\* implementation the test code may replace.
Predicates == {"gt10", "mock"}
\* A condition that is not a function.
NotAFunction == "not-a-function"
Conditions == Predicates \cup {NotAFunction}
\* typeof condition === 'function'
IsFunction(condition) == condition \in Predicates

\* Implementations of the mock predicate: return false, return true, throw.
TotalImpls == {"false", "true"}
AllImpls == {"false", "true", "throw"}

\* The errors of the library; both are made by  new Error(message).
ErrorOf(name, message) == [name |-> name, message |-> message]
NoError == ErrorOf("-", "-")
InvalidRuleError == ErrorOf("Error", "Rule condition must be a function.")
NoMatchError ==
    ErrorOf("Error", "Rules set is missing a default and no conditions were met.")
\* The error a caller's predicate throws.
PredicateError == ErrorOf("TypeError", "thrown by the predicate")

VARIABLES
    rules,          \* Rules._rules of each instance: the Map's entries in insertion order
    default,        \* Rules._default of each instance
    cache,          \* memoize's cache: Rules instance -> (key -> value)
    mockImpl,       \* the current implementation of the mock predicate
    last,           \* the call just made and its outcome
    nops,           \* number of library calls made
    defaultArg,     \* history: the argument of the latest setDefault call, if any
    returned,       \* history: <<instance, key, value>> returned by applyRules
    failed,         \* history: <<instance, key>> whose latest applyRules call failed
    runs,           \* history: how often applyRules ran predicate p for (instance, key)
    runsReturning,  \* history: the same, counting only calls that returned a value
    thrown,         \* history: the errors thrown, with the place that threw them
    seen,           \* history: <<instance, context>> passed to applyRules
    stale           \* history: instances changed after applyRules evaluated them

vars == <<rules, default, cache, mockImpl, last, nops, defaultArg,
          returned, failed, runs, runsReturning, thrown, seen, stale>>

(***************************************************************************)
(* Outcomes of a call                                                      *)
(***************************************************************************)
Return(value, invoked) ==
    [kind |-> "return", value |-> value, error |-> NoError, invoked |-> invoked]
Throw(error, invoked) ==
    [kind |-> "throw", value |-> NoValue, error |-> error, invoked |-> invoked]
Exhausted(invoked) ==
    [kind |-> "exhausted", value |-> NoValue, error |-> NoError, invoked |-> invoked]

(***************************************************************************)
(* Rules                                                                   *)
(***************************************************************************)
\* Position of a key in a Map's entries, 0 when absent.
IndexOf(entries, condition) ==
    IF \E i \in 1..Len(entries) : entries[i].condition = condition
    THEN CHOOSE i \in 1..Len(entries) : entries[i].condition = condition
    ELSE 0

\* A Map whose set moves a present key to the end (delete, then append).
MapSetMovesToEnd(entries, condition, value) ==
    Append(SelectSeq(entries, LAMBDA e : e.condition # condition),
           [condition |-> condition, value |-> value])

\* Map.prototype.set: a present key keeps its position and gets the new
\* value, an absent key is appended.
MapSet(entries, condition, value) ==
    LET i == IndexOf(entries, condition)
    IN  IF i = 0
        THEN Append(entries, [condition |-> condition, value |-> value])
        ELSE [entries EXCEPT ![i].value = value]

\* A setRule that stores the entry before it checks the condition.
setRuleStoresFirst(entries, condition, value) ==
    IF ~IsFunction(condition)
    THEN [entries |-> MapSet(entries, condition, value),
          out |-> Throw(InvalidRuleError, << >>)]
    ELSE [entries |-> MapSet(entries, condition, value), out |-> Return(NoValue, << >>)]

\* Rules.setRule: the new entries and the outcome.
setRule(entries, condition, value) ==
    IF ~IsFunction(condition)
    THEN [entries |-> entries, out |-> Throw(InvalidRuleError, << >>)]
    ELSE [entries |-> MapSet(entries, condition, value), out |-> Return(NoValue, << >>)]

\* Rules.setDefault: the new _default.
setDefault(old, value) == value

\* Calling a predicate with a context.
Call(condition, args, impl) ==
    CASE condition = "gt10" -> IF GreaterThan(args.x, 10) THEN "true" ELSE "false"
      [] OTHER -> impl

(***************************************************************************)
(* Evaluation                                                              *)
(***************************************************************************)
\* A loop that does not stop at the first match: the last match wins.
RECURSIVE IterateLastMatch(_, _, _, _)
IterateLastMatch(entries, args, impl, invoked) ==
    IF entries = << >>
    THEN Exhausted(invoked)
    ELSE LET condition == Head(entries).condition
             result == Call(condition, args, impl)
             now == Append(invoked, condition)
             rest == IterateLastMatch(Tail(entries), args, impl, now)
         IN  CASE result = "throw" -> Throw(PredicateError, now)
               [] result = "true" /\ rest.kind = "exhausted" ->
                      Return(Head(entries).value, rest.invoked)
               [] OTHER -> rest

\* The for-of loop of baseApplyRules over rules.getRules().
RECURSIVE Iterate(_, _, _, _)
Iterate(entries, args, impl, invoked) ==
    IF entries = << >>
    THEN Exhausted(invoked)
    ELSE LET condition == Head(entries).condition
             result == Call(condition, args, impl)
             now == Append(invoked, condition)
         IN  CASE result = "throw" -> Throw(PredicateError, now)
               [] result = "true" -> Return(Head(entries).value, now)
               [] OTHER -> Iterate(Tail(entries), args, impl, now)

\* An evaluation that returns the default without looking at it.
baseApplyRulesNoThrow(args, entries, defaultValue, impl) ==
    LET loop == Iterate(entries, args, impl, << >>)
    IN  IF loop.kind # "exhausted"
        THEN loop
        ELSE Return(defaultValue, loop.invoked)

\* baseApplyRules: the first matching rule's value, else the default when
\* it is not null, else the no-match error.
baseApplyRules(args, entries, defaultValue, impl) ==
    LET loop == Iterate(entries, args, impl, << >>)
    IN  IF loop.kind # "exhausted"
        THEN loop
        ELSE IF defaultValue # JsNull
             THEN Return(defaultValue, loop.invoked)
             ELSE Throw(NoMatchError, loop.invoked)

\* A memoize that never stores the result.
memoizeNoStore(c, args, r, entries, defaultValue, impl) ==
    LET c1 == IF r \in DOMAIN c THEN c ELSE (r :> << >>) @@ c
        innerCache == c1[r]
        key == JSONstringify(args)
    IN  IF key \in DOMAIN innerCache
        THEN [cache |-> c1, out |-> Return(innerCache[key], << >>), hit |-> TRUE]
        ELSE [cache |-> c1, out |-> baseApplyRules(args, entries, defaultValue, impl),
              hit |-> FALSE]

\* A memoize that makes a new inner Map on every call.
memoizeNewInnerMap(c, args, r, entries, defaultValue, impl) ==
    LET c1 == (r :> << >>) @@ c
        key == JSONstringify(args)
        result == baseApplyRules(args, entries, defaultValue, impl)
    IN  IF result.kind = "throw"
        THEN [cache |-> c1, out |-> result, hit |-> FALSE]
        ELSE [cache |-> [c1 EXCEPT ![r] = (key :> result.value) @@ << >>],
              out |-> result, hit |-> FALSE]

\* A memoize that stores the outcome of a failed evaluation too (the store
\* in a finally block): the failed key then holds no value.
memoizeStoresFailure(c, args, r, entries, defaultValue, impl) ==
    LET c1 == IF r \in DOMAIN c THEN c ELSE (r :> << >>) @@ c
        innerCache == c1[r]
        key == JSONstringify(args)
    IN  IF key \in DOMAIN innerCache
        THEN [cache |-> c1, out |-> Return(innerCache[key], << >>), hit |-> TRUE]
        ELSE LET result == baseApplyRules(args, entries, defaultValue, impl)
             IN  [cache |-> [c1 EXCEPT ![r] = (key :> result.value) @@ innerCache],
                  out |-> result, hit |-> FALSE]

\* A memoize whose key is String(args), "[object Object]" for every context.
memoizeObjectKey(c, args, r, entries, defaultValue, impl) ==
    LET c1 == IF r \in DOMAIN c THEN c ELSE (r :> << >>) @@ c
        innerCache == c1[r]
        key == "[object Object]"
    IN  IF key \in DOMAIN innerCache
        THEN [cache |-> c1, out |-> Return(innerCache[key], << >>), hit |-> TRUE]
        ELSE LET result == baseApplyRules(args, entries, defaultValue, impl)
             IN  IF result.kind = "throw"
                 THEN [cache |-> c1, out |-> result, hit |-> FALSE]
                 ELSE [cache |-> [c1 EXCEPT ![r] = (key :> result.value) @@ innerCache],
                       out |-> result, hit |-> FALSE]

\* A memoize with one inner Map for all Rules instances.
memoizeSharedCache(c, args, r, entries, defaultValue, impl) ==
    LET shared == "r1"
        c1 == IF shared \in DOMAIN c THEN c ELSE (shared :> << >>) @@ c
        innerCache == c1[shared]
        key == JSONstringify(args)
    IN  IF key \in DOMAIN innerCache
        THEN [cache |-> c1, out |-> Return(innerCache[key], << >>), hit |-> TRUE]
        ELSE LET result == baseApplyRules(args, entries, defaultValue, impl)
             IN  IF result.kind = "throw"
                 THEN [cache |-> c1, out |-> result, hit |-> FALSE]
                 ELSE [cache |-> [c1 EXCEPT ![shared] = (key :> result.value) @@ innerCache],
                       out |-> result, hit |-> FALSE]

\* The function memoize returns: the new cache, the outcome, and whether
\* the inner cache had the key.
memoize(c, args, r, entries, defaultValue, impl) ==
    LET c1 == IF r \in DOMAIN c THEN c ELSE (r :> << >>) @@ c
        innerCache == c1[r]
        key == JSONstringify(args)
    IN  IF key \in DOMAIN innerCache
        THEN [cache |-> c1, out |-> Return(innerCache[key], << >>), hit |-> TRUE]
        ELSE LET result == baseApplyRules(args, entries, defaultValue, impl)
             IN  IF result.kind = "throw"
                 THEN [cache |-> c1, out |-> result, hit |-> FALSE]
                 ELSE [cache |-> [c1 EXCEPT ![r] = (key :> result.value) @@ innerCache],
                       out |-> result, hit |-> FALSE]

(***************************************************************************)
(* The record of the call just made                                        *)
(***************************************************************************)
\* before: what the call found.  For applyRules, how the previous applyRules
\* call with the same instance and serialized context ended ("return",
\* "throw", or "none"); for setRule, whether the condition was already a
\* key of the Map ("present", "absent").
CallRecord(op, r, args, condition, value, out, hit, before) ==
    [op |-> op, r |-> r, args |-> args, condition |-> condition,
     value |-> value, out |-> out, hit |-> hit, before |-> before]

NoArgs == [x |-> Finite(0)]

Errors(out, site) ==
    IF out.kind = "throw" THEN {[site |-> site, error |-> out.error]} ELSE {}

(***************************************************************************)
(* Initial state: two fresh Rules instances, an empty cache                *)
(***************************************************************************)
Init ==
    /\ rules = [r \in RuleSets |-> << >>]
    /\ default = [r \in RuleSets |-> JsNull]
    /\ cache = << >>
    /\ mockImpl = "false"
    /\ last = CallRecord("none", "r1", NoArgs, NotAFunction, NoValue,
                         Return(NoValue, << >>), FALSE, "none")
    /\ nops = 0
    /\ defaultArg = [r \in RuleSets |-> NoValue]
    /\ returned = {}
    /\ failed = {}
    /\ runs = [t \in RuleSets \X Keys \X Predicates |-> 0]
    /\ runsReturning = [t \in RuleSets \X Keys \X Predicates |-> 0]
    /\ thrown = {}
    /\ seen = {}
    /\ stale = {}

(***************************************************************************)
(* Actions                                                                 *)
(***************************************************************************)
\* applyRules has been called on the instance.
Evaluated(r) == \E t \in seen : t[1] = r

\* stale, after the instances of rs were changed.
Changed(rs) == stale \cup {r \in rs : Evaluated(r)}

SetRule(r, condition, value) ==
    /\ nops < MaxOps
    /\ LET res == setRule(rules[r], condition, value)
       IN  /\ rules' = [rules EXCEPT ![r] = res.entries]
           /\ last' = CallRecord("setRule", r, NoArgs, condition, value, res.out, FALSE,
                                 IF IndexOf(rules[r], condition) > 0
                                 THEN "present" ELSE "absent")
           /\ thrown' = thrown \cup Errors(res.out, "setRule")
           /\ stale' = IF res.out.kind = "return" THEN Changed({r}) ELSE stale
    /\ nops' = nops + 1
    /\ UNCHANGED <<default, cache, mockImpl, defaultArg, returned, failed,
                   runs, runsReturning, seen>>

SetDefault(r, value) ==
    /\ nops < MaxOps
    /\ default' = [default EXCEPT ![r] = setDefault(default[r], value)]
    /\ defaultArg' = [defaultArg EXCEPT ![r] = value]
    /\ last' = CallRecord("setDefault", r, NoArgs, NotAFunction, value,
                          Return(NoValue, << >>), FALSE, "none")
    /\ stale' = Changed({r})
    /\ nops' = nops + 1
    /\ UNCHANGED <<rules, cache, mockImpl, returned, failed, runs,
                   runsReturning, thrown, seen>>

\* An evaluation that keeps a returned value in the rule set as its default.
BaseApplyRulesStoresDefault(args, r) ==
    /\ nops < MaxOps
    /\ LET out == baseApplyRules(args, rules[r], default[r], mockImpl)
       IN  /\ last' = CallRecord("baseApplyRules", r, args, NotAFunction, NoValue,
                                 out, FALSE, "none")
           /\ thrown' = thrown \cup Errors(out, "evaluation")
           /\ default' = IF out.kind = "return"
                         THEN [default EXCEPT ![r] = out.value]
                         ELSE default
    /\ nops' = nops + 1
    /\ UNCHANGED <<rules, cache, mockImpl, defaultArg, returned,
                   failed, runs, runsReturning, seen, stale>>

BaseApplyRules(args, r) ==
    /\ nops < MaxOps
    /\ LET out == baseApplyRules(args, rules[r], default[r], mockImpl)
       IN  /\ last' = CallRecord("baseApplyRules", r, args, NotAFunction, NoValue,
                                 out, FALSE, "none")
           /\ thrown' = thrown \cup Errors(out, "evaluation")
    /\ nops' = nops + 1
    /\ UNCHANGED <<rules, default, cache, mockImpl, defaultArg, returned,
                   failed, runs, runsReturning, seen, stale>>

\* How the previous applyRules call for (r, key) ended.
Before(r, key) ==
    IF <<r, key>> \in failed THEN "throw"
    ELSE IF \E t \in returned : t[1] = r /\ t[2] = key THEN "return"
    ELSE "none"

InSeq(s, e) == \E i \in 1..Len(s) : s[i] = e

ApplyRules(args, r) ==
    /\ nops < MaxOps
    /\ LET res == memoize(cache, args, r, rules[r], default[r], mockImpl)
           key == JSONstringify(args)
           ran(t) == IF t[1] = r /\ t[2] = key /\ InSeq(res.out.invoked, t[3])
                     THEN 1 ELSE 0
       IN  /\ cache' = res.cache
           /\ last' = CallRecord("applyRules", r, args, NotAFunction, NoValue,
                                 res.out, res.hit, Before(r, key))
           /\ thrown' = thrown \cup Errors(res.out, "evaluation")
           /\ returned' = IF res.out.kind = "return"
                          THEN returned \cup {<<r, key, res.out.value>>}
                          ELSE returned
           /\ failed' = IF res.out.kind = "throw"
                        THEN failed \cup {<<r, key>>}
                        ELSE failed \ {<<r, key>>}
           /\ runs' = [t \in DOMAIN runs |-> runs[t] + ran(t)]
           /\ runsReturning' = [t \in DOMAIN runs |->
                                  IF res.out.kind = "return"
                                  THEN runsReturning[t] + ran(t)
                                  ELSE runsReturning[t]]
    /\ seen' = seen \cup {<<r, args>>}
    /\ nops' = nops + 1
    /\ UNCHANGED <<rules, default, mockImpl, defaultArg, stale>>

\* The test code replaces the implementation of the mock predicate.
MockImplementation(impl) ==
    /\ impl # mockImpl
    /\ mockImpl' = impl
    /\ stale' = Changed({r \in RuleSets : IndexOf(rules[r], "mock") > 0})
    /\ UNCHANGED <<rules, default, cache, last, nops, defaultArg, returned,
                   failed, runs, runsReturning, thrown, seen>>

Calls ==
    \/ \E r \in RuleSets, condition \in Conditions, value \in Values :
          SetRule(r, condition, value)
    \/ \E r \in RuleSets, value \in DefaultArgs : SetDefault(r, value)
    \/ \E r \in RuleSets, args \in Contexts : BaseApplyRules(args, r)
    \/ \E r \in RuleSets, args \in Contexts : ApplyRules(args, r)

\* Predicates that return a boolean, as Predicate<Args> types them.
Next ==
    \/ Calls
    \/ \E impl \in TotalImpls : MockImplementation(impl)

Spec == Init /\ [][Next]_vars

\* The exported operations (baseApplyRules is not exported) with arguments
\* of their declared types, and predicates that may also throw.
NextRaise ==
    \/ \E r \in RuleSets, condition \in Predicates, value \in Values :
          SetRule(r, condition, value)
    \/ \E r \in RuleSets, value \in DefaultArgs : SetDefault(r, value)
    \/ \E r \in RuleSets, args \in Contexts : ApplyRules(args, r)
    \/ \E impl \in AllImpls : MockImplementation(impl)

SpecRaise == Init /\ [][NextRaise]_vars

(***************************************************************************)
(* Nested rules: the values of shippingCostRules are functions that call   *)
(* applyRules with descriptionRules (src/tests/fixtures.ts)                *)
(***************************************************************************)
\* The instance whose values are functions, and the instance these
\* functions resolve the description with.
ShippingCostRules == "r1"
DescriptionRules == "r2"

\* The function values (args) => ({ cost, description: applyRules(args,
\* descriptionRules) }), named by their cost.
ShippingFns == {"cost150", "cost25"}
Cost(fn) == IF fn = "cost150" THEN 150 ELSE 25

\* Calling a function value: the nested applyRules call and the
\* ShippingInfo built from its result.
shippingFn(fn, c, args, entries, defaultValue, impl) ==
    LET res == memoize(c, args, DescriptionRules, entries, defaultValue, impl)
    IN  [cache |-> res.cache, hit |-> res.hit,
         out |-> IF res.out.kind = "throw"
                 THEN res.out
                 ELSE Return([cost |-> Cost(fn), description |-> res.out.value],
                             res.out.invoked)]

\* The caller invokes the function applyRules has just returned:
\* resolver(args).
Resolver(args) ==
    /\ last.op = "applyRules"
    /\ last.out.kind = "return"
    /\ last.out.value \in ShippingFns
    /\ LET r == DescriptionRules
           res == shippingFn(last.out.value, cache, args, rules[r], default[r], mockImpl)
           key == JSONstringify(args)
           ran(t) == IF t[1] = r /\ t[2] = key /\ InSeq(res.out.invoked, t[3])
                     THEN 1 ELSE 0
       IN  /\ cache' = res.cache
           /\ last' = CallRecord("resolver", r, args, NotAFunction, last.out.value,
                                 res.out, res.hit, Before(r, key))
           /\ thrown' = thrown \cup Errors(res.out, "evaluation")
           /\ returned' = IF res.out.kind = "return"
                          THEN returned \cup {<<r, key, res.out.value.description>>}
                          ELSE returned
           /\ failed' = IF res.out.kind = "throw"
                        THEN failed \cup {<<r, key>>}
                        ELSE failed \ {<<r, key>>}
           /\ runs' = [t \in DOMAIN runs |-> runs[t] + ran(t)]
           /\ runsReturning' = [t \in DOMAIN runs |->
                                  IF res.out.kind = "return"
                                  THEN runsReturning[t] + ran(t)
                                  ELSE runsReturning[t]]
           /\ seen' = seen \cup {<<r, args>>}
    /\ UNCHANGED <<rules, default, mockImpl, nops, defaultArg, stale>>

\* shippingCostRules is a Rules<function>, descriptionRules a Rules<string>;
\* the caller evaluates shippingCostRules, the functions descriptionRules.
NextNested ==
    \/ \E condition \in Predicates, fn \in ShippingFns :
          SetRule(ShippingCostRules, condition, fn)
    \/ \E fn \in ShippingFns : SetDefault(ShippingCostRules, fn)
    \/ \E condition \in Predicates, value \in Values :
          SetRule(DescriptionRules, condition, value)
    \/ \E value \in DefaultArgs : SetDefault(DescriptionRules, value)
    \/ \E args \in Contexts : ApplyRules(args, ShippingCostRules)
    \/ \E args \in Contexts : Resolver(args)
    \/ \E impl \in TotalImpls : MockImplementation(impl)

SpecNested == Init /\ [][NextNested]_vars

TypeOK ==
    /\ \A r \in RuleSets : Len(rules[r]) <= Cardinality(Predicates)
    /\ default \in [RuleSets -> DefaultArgs]
    /\ nops \in 0..MaxOps

(***************************************************************************)
(* Vocabulary of the properties                                            *)
(***************************************************************************)
\* The step is a call of the operation op; last' is its record.
Step(op) == nops' = nops + 1 /\ last'.op = op

\* The conditions of a Map's entries, in insertion order.
ConditionsOf(entries) == [i \in 1..Len(entries) |-> entries[i].condition]

\* Position of the first entry whose predicate returns true for args,
\* 0 when no predicate returns true.
FirstTrue(entries, args, impl) ==
    LET true(i) == Call(entries[i].condition, args, impl) = "true"
    IN  IF \E i \in 1..Len(entries) : true(i)
        THEN CHOOSE i \in 1..Len(entries) : true(i) /\ \A j \in 1..(i - 1) : ~true(j)
        ELSE 0

\* The cache holds an entry for (r, key).
Cached(c, r, key) == r \in DOMAIN c /\ key \in DOMAIN c[r]

\* applyRules has returned a value for (r, key).
HasReturned(r, key) == \E t \in returned : t[1] = r /\ t[2] = key

(***************************************************************************)
(* C1: when some predicate of the rule set returns true for the context,   *)
(* baseApplyRules returns the value of the first such predicate in         *)
(* insertion order and invokes exactly the predicates up to and including  *)
(* it: no predicate positioned after it is invoked.                        *)
(***************************************************************************)
C1_FirstMatchWins ==
    [][Step("baseApplyRules") =>
         LET entries == rules[last'.r]
             i == FirstTrue(entries, last'.args, mockImpl)
         IN  i > 0 =>
               /\ last'.out.kind = "return"
               /\ last'.out.value = entries[i].value
               /\ last'.out.invoked = SubSeq(ConditionsOf(entries), 1, i)]_vars

\* A first match returned while a later predicate (x > 10, with x =
\* Infinity) would have matched too and was not invoked.
C1_Witness ==
    /\ last.op = "baseApplyRules"
    /\ last.out.kind = "return"
    /\ last.out.invoked = <<"mock">>
    /\ Len(rules[last.r]) = 2
    /\ rules[last.r][2].condition = "gt10"
    /\ GreaterThan(last.args.x, 10)
    /\ last.out.value = rules[last.r][1].value
    /\ rules[last.r][2].value # rules[last.r][1].value

(***************************************************************************)
(* C2: on a rule set on which setDefault has been called, baseApplyRules   *)
(* with a context for which no predicate returns true returns the value    *)
(* passed to the most recent setDefault call.                              *)
(***************************************************************************)
C2_DefaultReturned ==
    [][(/\ Step("baseApplyRules")
        /\ defaultArg[last'.r] # NoValue
        /\ FirstTrue(rules[last'.r], last'.args, mockImpl) = 0)
       => /\ last'.out.kind = "return"
          /\ last'.out.value = defaultArg[last'.r]]_vars

(***************************************************************************)
(* C3: on a rule set on which setDefault was never called, baseApplyRules  *)
(* with a context for which no predicate returns true fails with the       *)
(* no-match error; setRule with a callable condition never fails; and the  *)
(* same rule set returns the first match's value for a context that        *)
(* matches.                                                                *)
(***************************************************************************)
C3_NoMatchFailsAtEvaluation ==
    [][/\ (Step("baseApplyRules") /\ defaultArg[last'.r] = NoValue) =>
            LET entries == rules[last'.r]
                i == FirstTrue(entries, last'.args, mockImpl)
            IN  IF i = 0
                THEN last'.out.kind = "throw" /\ last'.out.error = NoMatchError
                ELSE last'.out.kind = "return" /\ last'.out.value = entries[i].value
       /\ (Step("setRule") /\ IsFunction(last'.condition)) =>
            last'.out.kind = "return"]_vars

\* A rule set with a rule and no default failed at evaluation.
C3_Witness ==
    /\ last.op = "baseApplyRules"
    /\ last.out.kind = "throw"
    /\ last.out.error = NoMatchError
    /\ defaultArg[last.r] = NoValue
    /\ Len(rules[last.r]) > 0
    /\ last.out.invoked = ConditionsOf(rules[last.r])

(***************************************************************************)
(* C4: after setDefault(null), baseApplyRules with a context matching no   *)
(* predicate returns null instead of failing with the no-match error.      *)
(***************************************************************************)
C4_NullDefaultReturned ==
    [][(/\ Step("baseApplyRules")
        /\ defaultArg[last'.r] = JsNull
        /\ FirstTrue(rules[last'.r], last'.args, mockImpl) = 0)
       => last'.out = Return(JsNull, ConditionsOf(rules[last'.r]))]_vars

(***************************************************************************)
(* C5: when applyRules has returned a value for a rule set instance and a  *)
(* context, a call with the same instance and a context of equal           *)
(* serialization returns that same value and invokes no predicate: no      *)
(* predicate's call count changes.                                         *)
(***************************************************************************)
C5_SecondCallFromCache ==
    [][(Step("applyRules") /\ HasReturned(last'.r, JSONstringify(last'.args))) =>
         /\ last'.out.kind = "return"
         /\ \A t \in returned :
               (t[1] = last'.r /\ t[2] = JSONstringify(last'.args)) =>
                  last'.out.value = t[3]
         /\ last'.out.invoked = << >>
         /\ runs' = runs]_vars

\* The second call had x = Infinity, which the rule x > 10 matches, and
\* returned the default cached for a context of the same serialization
\* (NaN and Infinity are both serialized as null) without running the rule.
C5_Witness ==
    /\ last.op = "applyRules"
    /\ last.before = "return"
    /\ last.out.kind = "return"
    /\ last.args.x = Infinity
    /\ Len(rules[last.r]) = 1
    /\ rules[last.r][1].condition = "gt10"
    /\ last.out.value # rules[last.r][1].value
    /\ runs[<<last.r, JSONstringify(last.args), "gt10">>] = 1

(***************************************************************************)
(* C6: a failure of applyRules is the failure of the evaluation,           *)
(* unmodified; it stores no cache entry for the instance and the key; and  *)
(* the next call with the same instance and key runs the evaluation again, *)
(* so it returns a value once a default is set or the predicate matches.   *)
(***************************************************************************)
C6_FailureNotCached ==
    [][Step("applyRules") =>
         LET r == last'.r
             key == JSONstringify(last'.args)
             fresh == baseApplyRules(last'.args, rules[r], default[r], mockImpl)
         IN  /\ last'.out.kind = "throw" =>
                  /\ last'.out = fresh
                  /\ ~Cached(cache', r, key)
             /\ <<r, key>> \in failed => last'.out = fresh]_vars

\* After a predicate threw, the call with the same inputs ran the
\* predicate again and returned the rule's value.
C6_Witness ==
    /\ last.op = "applyRules"
    /\ last.before = "throw"
    /\ last.out.kind = "return"
    /\ last.out.invoked = <<"mock">>
    /\ \E e \in thrown : e.error = PredicateError

(***************************************************************************)
(* C7 as stated: applyRules runs each predicate of a rule set at most once *)
(* for each (instance, serialized context).                                *)
(***************************************************************************)
C7_AtMostOnce == \A t \in DOMAIN runs : runs[t] <= 1

(***************************************************************************)
(* C7 amended: the calls of applyRules that return a value run each        *)
(* predicate at most once for each (instance, serialized context); a call  *)
(* that fails is not cached, and the retry runs the predicates again.      *)
(***************************************************************************)
C7_AtMostOnceReturning == \A t \in DOMAIN runsReturning : runsReturning[t] <= 1

\* A predicate ran twice for one (instance, key): in a call that failed
\* and in the retry that returned.
C7_Witness ==
    \E t \in DOMAIN runs : runs[t] >= 2 /\ runsReturning[t] = 1

(***************************************************************************)
(* C8: setRule with a condition that is not callable fails with the        *)
(* invalid-rule error and leaves the entries and the default of every      *)
(* rule set as they were.                                                  *)
(***************************************************************************)
C8_InvalidRuleRejected ==
    [][(Step("setRule") /\ ~IsFunction(last'.condition)) =>
         /\ last'.out.kind = "throw"
         /\ last'.out.error = InvalidRuleError
         /\ rules' = rules
         /\ default' = default]_vars

\* The failed call came after builder calls that set a rule and a default.
C8_Witness ==
    /\ last.op = "setRule"
    /\ last.out.kind = "throw"
    /\ last.condition = NotAFunction
    /\ Len(rules[last.r]) > 0
    /\ defaultArg[last.r] # NoValue

(***************************************************************************)
(* C9: setRule with a predicate already in the rule set replaces that      *)
(* predicate's value, keeps the number and the order of the entries and    *)
(* every other value, and baseApplyRules on a context whose first match    *)
(* is this predicate then returns the new value.                           *)
(***************************************************************************)
C9_ReAddKeepsPosition ==
    [][(/\ Step("setRule")
        /\ IsFunction(last'.condition)
        /\ IndexOf(rules[last'.r], last'.condition) > 0)
       => LET old == rules[last'.r]
              new == rules'[last'.r]
              i == IndexOf(old, last'.condition)
          IN  /\ Len(new) = Len(old)
              /\ ConditionsOf(new) = ConditionsOf(old)
              /\ new[i].value = last'.value
              /\ \A j \in 1..Len(old) : j # i => new[j] = old[j]
              /\ \A args \in Contexts :
                    FirstTrue(new, args, mockImpl') = i =>
                       baseApplyRules(args, new, default'[last'.r], mockImpl').value
                          = last'.value]_vars

\* The first of two entries was set again, with another value than the
\* second entry has.
C9_Witness ==
    /\ last.op = "setRule"
    /\ last.before = "present"
    /\ last.out.kind = "return"
    /\ Len(rules[last.r]) = 2
    /\ rules[last.r][1].condition = last.condition
    /\ rules[last.r][1].value = last.value
    /\ rules[last.r][2].value # last.value

(***************************************************************************)
(* C10: the failure of setRule on a non-callable condition and the         *)
(* failure of evaluation with no match and no default are errors of        *)
(* different kinds, apart from their message texts.                        *)
(***************************************************************************)
C10_DistinctErrorKinds ==
    \A e1, e2 \in thrown :
        (/\ e1.site = "setRule"
         /\ e2.site = "evaluation"
         /\ e2.error.message = NoMatchError.message)
        => e1.error.name # e2.error.name

(***************************************************************************)
(* C13: evaluation never mutates the rule set: a call of baseApplyRules    *)
(* or of applyRules, whether it returns a value, is a cache hit or fails,  *)
(* leaves the entries and the default of every rule set as they were.      *)
(***************************************************************************)
C13_EvaluationKeepsRules ==
    [][(Step("baseApplyRules") \/ Step("applyRules")) =>
         /\ rules' = rules
         /\ default' = default]_vars

\* A cache hit on a rule set that has a rule and a default.
C13_Witness ==
    /\ last.op = "applyRules"
    /\ last.hit
    /\ Len(rules[last.r]) > 0
    /\ default[last.r] # JsNull

(***************************************************************************)
(* C14: cache entries are never invalidated or overwritten.  A value that  *)
(* applyRules returns is in the cache under (instance, key); an entry of   *)
(* the cache stays, with its value, through every later call, setRule and  *)
(* setDefault included; and applyRules with a key that has an entry        *)
(* returns the entry's value without invoking a predicate, whatever        *)
(* baseApplyRules would give on the rule set as it now is.                 *)
(***************************************************************************)
C14_CacheNeverInvalidated ==
    [][/\ \A r \in RuleSets, key \in Keys :
            Cached(cache, r, key) =>
               Cached(cache', r, key) /\ cache'[r][key] = cache[r][key]
       /\ Step("applyRules") =>
            LET r == last'.r
                key == JSONstringify(last'.args)
            IN  /\ last'.out.kind = "return" =>
                     Cached(cache', r, key) /\ cache'[r][key] = last'.out.value
                /\ Cached(cache, r, key) =>
                     last'.out = Return(cache[r][key], << >>)]_vars

\* applyRules returned the value cached before setDefault changed the
\* default; the rule set has no rule, so baseApplyRules would now return
\* the new default, or fail when the new default is null.
C14_Witness ==
    /\ last.op = "applyRules"
    /\ last.before = "return"
    /\ last.out.kind = "return"
    /\ rules[last.r] = << >>
    /\ defaultArg[last.r] # last.out.value

(***************************************************************************)
(* C12: on a rule set that was not changed since applyRules first          *)
(* evaluated it (no setRule or setDefault on it, no new implementation of  *)
(* one of its predicates), and with a context whose serialization no       *)
(* other context passed to applyRules for this rule set shares,            *)
(* applyRules returns the same value, or fails with the same error, as     *)
(* baseApplyRules on the same context and rule set; and every cache entry  *)
(* of an instance is a value applyRules returned for that instance, so     *)
(* instances, structurally identical or not, share no entries.             *)
(***************************************************************************)
C12_MemoizedEqualsBase ==
    [][/\ Step("applyRules") =>
            LET r == last'.r
                args == last'.args
                fresh == baseApplyRules(args, rules[r], default[r], mockImpl)
                injective == \A t \in seen :
                                (t[1] = r /\ JSONstringify(t[2]) = JSONstringify(args))
                                   => t[2] = args
            IN  (r \notin stale /\ injective) =>
                   /\ last'.out.kind = fresh.kind
                   /\ last'.out.value = fresh.value
                   /\ last'.out.error = fresh.error
       /\ \A r \in RuleSets, key \in Keys :
            Cached(cache', r, key) => <<r, key, cache'[r][key]>> \in returned']_vars

\* Two structurally identical instances, neither changed after its first
\* evaluation: the call on the second evaluated it (no cache hit) although
\* the first had an entry for the same key.
C12_Witness ==
    /\ last.op = "applyRules"
    /\ ~last.hit
    /\ last.out.kind = "return"
    /\ stale = {}
    /\ \E other \in RuleSets \ {last.r} :
          /\ rules[other] = rules[last.r]
          /\ default[other] = default[last.r]
          /\ Cached(cache, other, JSONstringify(last.args))

(***************************************************************************)
(* C11: with functions as the values of a rule set, applyRules returns the *)
(* stored function of the first matching rule, or the default function,    *)
(* without invoking it (no nested call is made); invoking the returned     *)
(* function makes it call applyRules with the second rule set and yields   *)
(* that rule set's first-match result for the context (its default when    *)
(* nothing matches, the no-match error without a default), with the        *)
(* function's cost; and each result is cached under its own rule set: the  *)
(* nested call leaves the entries of the first rule set as they are.       *)
(* Both parts are stated for a rule set that was not changed since its     *)
(* first evaluation and a context whose serialization no other context     *)
(* used on it shares.                                                      *)
(***************************************************************************)
\* r was not changed since its first evaluation, and no other context
\* passed to applyRules for r has the serialization of args.
BuiltBefore(r, args) ==
    /\ r \notin stale
    /\ \A t \in seen :
          (t[1] = r /\ JSONstringify(t[2]) = JSONstringify(args)) => t[2] = args

\* The caches of c and d have the same entries for r.
SameEntries(c, d, r) ==
    /\ r \in DOMAIN c <=> r \in DOMAIN d
    /\ r \in DOMAIN c => c[r] = d[r]

C11_NestedRules ==
    [][/\ (Step("applyRules") /\ last'.r = ShippingCostRules) =>
            LET r == ShippingCostRules
                i == FirstTrue(rules[r], last'.args, mockImpl)
            IN  /\ SameEntries(cache', cache, DescriptionRules)
                /\ BuiltBefore(r, last'.args) =>
                     /\ i > 0 => last'.out.value = rules[r][i].value
                     /\ (i = 0 /\ default[r] # JsNull) => last'.out.value = default[r]
       /\ (last.op = "applyRules" /\ last'.op = "resolver") =>
            LET r == DescriptionRules
                fn == last.out.value
                key == JSONstringify(last'.args)
                j == FirstTrue(rules[r], last'.args, mockImpl)
                info(description) == [cost |-> Cost(fn), description |-> description]
            IN  /\ SameEntries(cache', cache, ShippingCostRules)
                /\ cache'[last.r][JSONstringify(last.args)] = fn
                /\ last'.out.kind = "return" =>
                     /\ Cached(cache', r, key)
                     /\ last'.out.value = info(cache'[r][key])
                /\ BuiltBefore(r, last'.args) =>
                     /\ j > 0 => /\ last'.out.kind = "return"
                                 /\ last'.out.value = info(rules[r][j].value)
                     /\ (j = 0 /\ default[r] # JsNull) =>
                                 /\ last'.out.kind = "return"
                                 /\ last'.out.value = info(default[r])
                     /\ (j = 0 /\ default[r] = JsNull) =>
                                 /\ last'.out.kind = "throw"
                                 /\ last'.out.error = NoMatchError]_vars

\* The function of the first matching rule (x > 10, x = Infinity) was
\* returned and invoked with the same context; it resolved a rule of the
\* second rule set, and the two results are cached under the same key,
\* each under its own rule set.
C11_Witness ==
    /\ last.op = "resolver"
    /\ last.out.kind = "return"
    /\ last.args.x = Infinity
    /\ last.value = "cost150"
    /\ last.out.value = [cost |-> 150, description |-> "large"]
    /\ last.out.invoked = <<"gt10">>
    /\ rules[ShippingCostRules] = <<[condition |-> "gt10", value |-> "cost150"]>>
    /\ cache[ShippingCostRules][JSONstringify(last.args)] = "cost150"
    /\ cache[DescriptionRules][JSONstringify(last.args)] = "large"
====
